---- MODULE Spec2Model ----
(***************************************************************************)
(* The request pipeline of nestjs-restcall: AbstractRestTemplate.request   *)
(* in its two variants (with and without the retry-on-401 branch) and the  *)
(* three hooks of RestTemplateService.                                     *)
(*                                                                         *)
(* Encoding of JavaScript values:                                          *)
(*   - an optional value is a sequence of length 0 or 1: None is undefined *)
(*     (or null), Some(v) is a present value;                              *)
(*   - a string is a sequence of atoms, so that a template literal is a    *)
(*     concatenation and the empty string is the empty sequence;           *)
(*   - a headers object is a function from its own keys to strings;        *)
(*   - an object that reference equality can tell apart carries the        *)
(*     address it was allocated at in its field ref.                       *)
(***************************************************************************)
EXTENDS Integers, Sequences, FiniteSets, TLC

VARIABLES
    variant,    \* which request routine the template instance runs
    calls,      \* per invocation: its arguments, its position, what it did
    nextRef,    \* next free object address
    probe       \* last direct call of a hook, with its argument and outcome

vars == <<variant, calls, nextRef, probe>>

----------------------------------------------------------------------------
(* JavaScript values *)

None == <<>>
Some(v) == <<v>>
Str(s) == <<s>>
EmptyObject == <<>>

\* o ?? d
Coalesce(o, d) == IF o = None THEN d ELSE o[1]

\* o?.f, for an optional object o whose fields are themselves optional
OptField(o, f) == IF o = None THEN None ELSE o[1][f]

\* { ...a, ...b }: the keys of both, b's value where both have the key
Spread(a, b) ==
    [k \in (DOMAIN a) \cup (DOMAIN b) |-> IF k \in DOMAIN b THEN b[k] ELSE a[k]]

----------------------------------------------------------------------------
(* Program constants *)

DefaultTimeoutMs == 10000
BAD_GATEWAY == 502
Unauthorized == 401

ResponseModeData == "data"
ResponseModeFull == "full"

----------------------------------------------------------------------------
(* RestTemplateService: the three hooks *)

getDefaultHeaders ==
    ("Accept" :> Str("application/json")) @@ ("Content-Type" :> Str("application/json"))

\* !context?.token : no context, no token, or the empty string
TokenMissing(context) ==
    \/ OptField(context, "token") = None
    \/ OptField(context, "token") = Some(<<>>)

applyAuth_NoBearer(config, context, ref) ==
    IF TokenMissing(context)
    THEN config
    ELSE [config EXCEPT
            !.ref = ref,
            !.headers = Some(Spread(Coalesce(config.headers, EmptyObject),
                                    "Authorization" :> context[1].token[1]))]

applyAuth_AlwaysCopy(config, context, ref) ==
    IF TokenMissing(context)
    THEN [config EXCEPT !.ref = ref]
    ELSE [config EXCEPT
            !.ref = ref,
            !.headers = Some(Spread(Coalesce(config.headers, EmptyObject),
                                    "Authorization" :> (Str("Bearer ") \o context[1].token[1])))]

\* config.headers.Authorization = ...; return config
applyAuth_InPlace(config, context, ref) ==
    IF TokenMissing(context) THEN config
    ELSE [config EXCEPT !.headers =
             Some(Spread(Coalesce(config.headers, EmptyObject),
                         "Authorization" :> (Str("Bearer ") \o context[1].token[1])))]

\* ref is the address of the object literal the token branch allocates
applyAuth(config, context, ref) ==
    IF TokenMissing(context)
    THEN config
    ELSE LET baseHeaders == Spread(EmptyObject, Coalesce(config.headers, EmptyObject))
         IN  [config EXCEPT
                !.ref = ref,
                !.headers = Some(Spread(baseHeaders,
                                        "Authorization" :> (Str("Bearer ") \o context[1].token[1])))]

\* Reading a property of undefined or null
TypeError == [type |-> "TypeError"]

HttpException(payload, status) ==
    [type |-> "HttpException", status |-> status, payload |-> payload]

mapAndThrowError_NoFallback(error) ==
    IF error.kind = "nullish"
    THEN TypeError
    ELSE LET data == OptField(error.response, "data")
         IN  HttpException(
                [message |-> Coalesce(OptField(data, "message"), Str("Upstream request failed")),
                 code    |-> Coalesce(OptField(data, "code"), Str("UPSTREAM_ERROR")),
                 details |-> OptField(data, "details")],
                Coalesce(OptField(error.response, "status"), BAD_GATEWAY))

mapAndThrowError_Always502(error) ==
    IF error.kind = "nullish"
    THEN TypeError
    ELSE LET data == OptField(error.response, "data")
         IN  HttpException(
                [message |-> Coalesce(OptField(data, "message"),
                                      Coalesce(error.message, Str("Upstream request failed"))),
                 code    |-> Coalesce(OptField(data, "code"), Str("UPSTREAM_ERROR")),
                 details |-> OptField(data, "details")],
                BAD_GATEWAY)

\* The value mapAndThrowError throws; it has no path that returns
mapAndThrowError(error) ==
    IF error.kind = "nullish"
    THEN TypeError
    ELSE LET status == Coalesce(OptField(error.response, "status"), BAD_GATEWAY)
             data == OptField(error.response, "data")
             message == Coalesce(OptField(data, "message"),
                                 Coalesce(error.message, Str("Upstream request failed")))
             payload == [message |-> message,
                         code    |-> Coalesce(OptField(data, "code"), Str("UPSTREAM_ERROR")),
                         details |-> OptField(data, "details")]
         IN  HttpException(payload, status)

----------------------------------------------------------------------------
(* AbstractRestTemplate: building the configuration *)

buildBaseConfig_DefaultsWin(options, ref) ==
    [ref     |-> ref,
     headers |-> Some(Spread(Coalesce(OptField(options, "headers"), EmptyObject),
                             getDefaultHeaders)),
     params  |-> OptField(options, "params"),
     timeout |-> Some(Coalesce(OptField(options, "timeoutMs"), DefaultTimeoutMs))]

\* options?.timeoutMs || 10000
buildBaseConfig_TimeoutOr(options, ref) ==
    [ref     |-> ref,
     headers |-> Some(Spread(getDefaultHeaders,
                             Coalesce(OptField(options, "headers"), EmptyObject))),
     params  |-> OptField(options, "params"),
     timeout |-> IF OptField(options, "timeoutMs") \in {None, Some(0)}
                 THEN Some(DefaultTimeoutMs)
                 ELSE OptField(options, "timeoutMs")]

\* ref is the address of the cfg object literal
buildBaseConfig(options, ref) ==
    LET mergedHeaders == Spread(getDefaultHeaders,
                                Coalesce(OptField(options, "headers"), EmptyObject))
    IN  [ref     |-> ref,
         headers |-> Some(mergedHeaders),
         params  |-> OptField(options, "params"),
         timeout |-> Some(Coalesce(OptField(options, "timeoutMs"), DefaultTimeoutMs))]

\* An applyAuth of a subclass that also fills in a request line and a payload
\* of its own on the new configuration it returns
subclassApplyAuth(config, context, ref) ==
    [Spread(config, [method |-> "TRACE", url |-> "/elsewhere",
                     data |-> Some([forged |-> TRUE])]) EXCEPT !.ref = ref]

\* { method, url, data: body, ...withAuth }
finalConfig_AuthWins(withAuth, method, url, body, ref) ==
    [Spread([method |-> method, url |-> url, data |-> body], withAuth) EXCEPT !.ref = ref]

\* { ...withAuth, method, url, data: body }, allocated at ref
finalConfig(withAuth, method, url, body, ref) ==
    [Spread(withAuth, [method |-> method, url |-> url, data |-> body]) EXCEPT !.ref = ref]

selectResponse_AlwaysData(options, resp) == resp.data

\* (options?.responseMode ?? ResponseMode.data) === ResponseMode.full ? resp : resp.data
selectResponse(options, resp) ==
    IF Coalesce(OptField(options, "responseMode"), ResponseModeData) = ResponseModeFull
    THEN resp
    ELSE resp.data

----------------------------------------------------------------------------
(* Bounds and input sets *)

MaxRetry == 2

Calls == {"c1", "c2"}
Variants == {"retry", "plain"}
Verbs == {"get", "post", "put", "patch", "delete"}
Methods == {"GET", "POST", "PUT", "PATCH", "DELETE"}
Urls == {"/payments"}
Bodies == {None, Some([amount |-> 5])}

HeaderKeys == {"Accept", "X-Trace", "Authorization"}
HeaderValues == {Str("text/plain"), Str("Basic abc")}
HeaderMaps == UNION {[D -> HeaderValues] : D \in SUBSET HeaderKeys}

Tokens == {None, Some(<<>>), Some(Str("access-token"))}
Contexts == {None} \cup {Some([token |-> t]) : t \in Tokens}

ParamSets == {None, Some([limit |-> 50])}

\* What the transport resolves with (axios resolves on a 2xx status only)
Responses ==
    {[status |-> 200, headers |-> ("content-type" :> Str("application/json")),
      data |-> [id |-> 7]],
     [status |-> 201, headers |-> ("location" :> Str("/payments/7")),
      data |-> [created |-> TRUE]]}

NullishError == [kind |-> "nullish", message |-> None, response |-> None]
PrimitiveError == [kind |-> "primitive", message |-> None, response |-> None]

ErrorBodies ==
    {None} \cup
    {Some([message |-> m, code |-> c, details |-> d]) :
        m \in {None, Some(Str("Unauthorized"))},
        c \in {None, Some(Str("INVALID_TOKEN"))},
        d \in {None, Some(Str("token expired"))}}

ErrorResponses ==
    {None} \cup
    {Some([status |-> s, data |-> b]) :
        s \in {None, Some(Unauthorized), Some(500)}, b \in ErrorBodies}

ObjectErrors ==
    {[kind |-> "object", message |-> m, response |-> r] :
        m \in {None, Some(Str("network timeout"))}, r \in ErrorResponses}

\* Every kind of value a catch clause can capture
AnyErrors == {NullishError, PrimitiveError} \cup ObjectErrors

FullBody == Some([message |-> Some(Str("Unauthorized")),
                  code    |-> Some(Str("INVALID_TOKEN")),
                  details |-> Some(Str("token expired"))])

\* axios rejects with an error object: with the response for a non-2xx status,
\* without one when no response arrived
TransportErrors ==
    {[kind |-> "object", message |-> Some(Str("network timeout")), response |-> None],
     [kind |-> "object", message |-> Some(Str("Request failed")),
      response |-> Some([status |-> Some(Unauthorized), data |-> FullBody])],
     [kind |-> "object", message |-> Some(Str("Request failed")),
      response |-> Some([status |-> Some(500), data |-> None])]}

\* A hook of a subclass can throw or reject with any value
HookErrors ==
    TransportErrors \cup
    {NullishError, PrimitiveError,
     [kind |-> "object", message |-> None, response |-> None]}

\* Whose applyAuth the instance runs: RestTemplateService's or a subclass's
AuthHooks == {"default", "subclass"}

\* Per-call options of the pipeline's callers
CallOptions ==
    {None} \cup
    {Some([headers |-> h, params |-> p, timeoutMs |-> t, context |-> x, responseMode |-> m]) :
        h \in {None, Some(("Accept" :> Str("text/plain")) @@ ("X-Trace" :> Str("trace-123")))},
        p \in ParamSets,
        t \in {None, Some(0), Some(5000)},
        x \in {None, Some([token |-> Some(Str("access-token"))])},
        m \in {None, Some(ResponseModeData), Some(ResponseModeFull)}}

\* Per-call options of a subclass calling the protected routine
RequestOptions ==
    {o \in CallOptions : o = None \/ (o[1].params = None /\ o[1].timeoutMs = None)}

\* Options handed to buildBaseConfig directly
ProbeOptions ==
    {None} \cup
    {Some([headers |-> h, params |-> p, timeoutMs |-> t, context |-> None,
           responseMode |-> None]) :
        h \in {None} \cup {Some(m) : m \in HeaderMaps},
        p \in ParamSets,
        t \in {None, Some(0), Some(5000)}}

\* Configurations handed to applyAuth directly, allocated at ref
ProbeConfigs(ref) ==
    {[ref |-> ref, headers |-> h, params |-> p, timeout |-> t] :
        h \in {None} \cup {Some(m) : m \in HeaderMaps},
        p \in ParamSets,
        t \in {None, Some(5000)}}

----------------------------------------------------------------------------
(* State *)

IdleCall ==
    [pc        |-> "idle",    \* idle, start, awaitAuth, awaitTransport, resolved, rejected
     entry     |-> "none",    \* the verb method called, or "request"
     method    |-> "",
     url       |-> "",
     body      |-> None,
     options   |-> None,    \* the caller's options object as it is now
     options0  |-> None,    \* its content when the call was made
     budget0   |-> 0,         \* maxRetryAttempts of the outermost request frame
     budget    |-> 0,         \* maxRetryAttempts of the running request frame
     attempts  |-> 0,         \* request frames entered
     baseCfg   |-> None,
     withAuth  |-> None,
     sent      |-> <<>>,      \* the configurations handed to the transport, in order
     inFlight  |-> 0,         \* transport calls not yet settled
     answers   |-> <<>>,      \* the status each of them was answered with, if any
     response  |-> None,      \* the envelope the transport resolved with
     captured  |-> <<>>,      \* the errors the catch clauses captured, in order
     mapped    |-> <<>>,      \* the arguments of mapAndThrowError, in order
     result    |-> None,      \* the value the call resolved to
     thrown    |-> None]      \* the value the call rejected with

NoProbe == [fn |-> "none"]

Init ==
    /\ variant \in Variants
    /\ calls = [c \in Calls |-> IdleCall]
    /\ nextRef = 1
    /\ probe = NoProbe

----------------------------------------------------------------------------
(* AbstractRestTemplate: the verb methods *)

RequestArgs(method, url, body, options, maxRetryAttempts) ==
    [method |-> method, url |-> url, body |-> body, options |-> options,
     maxRetryAttempts |-> maxRetryAttempts]

\* return this.request<T>('GET', url, undefined, options, 1)
get_Budget1(url, options) == RequestArgs("GET", url, None, options, 1)

get(url, options) == RequestArgs("GET", url, None, options, 0)
post(url, body, options) == RequestArgs("POST", url, body, options, 0)
put(url, body, options) == RequestArgs("PUT", url, body, options, 0)
patch(url, body, options) == RequestArgs("PATCH", url, body, options, 0)
delete(url, options) == RequestArgs("DELETE", url, None, options, 0)

VerbCall(verb, url, body, options) ==
    CASE verb = "get"    -> get(url, options)
      [] verb = "post"   -> post(url, body, options)
      [] verb = "put"    -> put(url, body, options)
      [] verb = "patch"  -> patch(url, body, options)
      [] verb = "delete" -> delete(url, options)

\* Entering the outermost request frame
Enter(c, entry, args) ==
    /\ calls[c].pc = "idle"
    /\ calls' = [calls EXCEPT ![c] =
                    [@ EXCEPT !.pc = "start", !.entry = entry,
                              !.method = args.method, !.url = args.url,
                              !.body = args.body, !.options = args.options,
                              !.options0 = args.options,
                              !.budget0 = args.maxRetryAttempts,
                              !.budget = args.maxRetryAttempts]]
    /\ UNCHANGED <<variant, nextRef, probe>>

InvokeVerb(c, verb, url, body, options) ==
    Enter(c, verb, VerbCall(verb, url, body, options))

\* A subclass calling the protected routine with a budget of its own
InvokeRequest(c, method, url, options, maxRetryAttempts) ==
    /\ variant = "retry"
    /\ Enter(c, "request", RequestArgs(method, url, None, options, maxRetryAttempts))

----------------------------------------------------------------------------
(* AbstractRestTemplate.request *)

retryAllowed_OffByOne(status, maxRetryAttempts) ==
    status = Some(Unauthorized) /\ maxRetryAttempts >= 0

\* status === 401 && maxRetryAttempts > 0
retryAllowed(status, maxRetryAttempts) ==
    status = Some(Unauthorized) /\ maxRetryAttempts > 0

\* The catch clause of the routine without the retry branch
catchPlain(call, error) ==
    [call EXCEPT !.captured = Append(@, error),
                 !.mapped = Append(@, error),
                 !.thrown = Some(mapAndThrowError(error)),
                 !.pc = "rejected"]

catchRetry_NoDecrement(call, error) ==
    IF error.kind = "nullish"
    THEN [call EXCEPT !.captured = Append(@, error),
                      !.thrown = Some(TypeError),
                      !.pc = "rejected"]
    ELSE IF retryAllowed(OptField(error.response, "status"), call.budget)
    THEN [call EXCEPT !.captured = Append(@, error),
                      !.pc = "start"]
    ELSE [call EXCEPT !.captured = Append(@, error),
                      !.mapped = Append(@, error),
                      !.thrown = Some(mapAndThrowError(error)),
                      !.pc = "rejected"]

\* The catch clause of the routine with the retry branch. ax.response?.status
\* reads a property of the captured value, which throws for undefined and null;
\* the recursive call enters a new frame with the budget decremented.
catchRetry(call, error) ==
    IF error.kind = "nullish"
    THEN [call EXCEPT !.captured = Append(@, error),
                      !.thrown = Some(TypeError),
                      !.pc = "rejected"]
    ELSE IF retryAllowed(OptField(error.response, "status"), call.budget)
    THEN [call EXCEPT !.captured = Append(@, error),
                      !.budget = @ - 1,
                      !.pc = "start"]
    ELSE [call EXCEPT !.captured = Append(@, error),
                      !.mapped = Append(@, error),
                      !.thrown = Some(mapAndThrowError(error)),
                      !.pc = "rejected"]

Catch(call, error) ==
    IF variant = "retry" THEN catchRetry(call, error) ELSE catchPlain(call, error)

\* try { const baseCfg = this.buildBaseConfig(options); this.applyAuth(...) is called
BuildConfig(c) ==
    /\ calls[c].pc = "start"
    /\ calls' = [calls EXCEPT ![c] =
                    [@ EXCEPT !.attempts = @ + 1,
                              !.baseCfg = Some(buildBaseConfig(calls[c].options, nextRef)),
                              !.withAuth = None,
                              !.pc = "awaitAuth"]]
    /\ nextRef' = nextRef + 1
    /\ UNCHANGED <<variant, probe>>

\* getDefaultHeaders of a subclass throws inside buildBaseConfig
BuildConfigThrows(c, error) ==
    /\ calls[c].pc = "start"
    /\ calls' = [calls EXCEPT ![c] =
                    Catch([@ EXCEPT !.attempts = @ + 1, !.baseCfg = None,
                                    !.withAuth = None], error)]
    /\ UNCHANGED <<variant, nextRef, probe>>

\* The base configuration kept in a field of the instance, so that applyAuth
\* is handed the one built last by any call
AuthResolves_SharedCfg(c, hook) ==
    /\ calls[c].pc = "awaitAuth"
    /\ LET call == calls[c]
           built == {calls[d].baseCfg[1] : d \in {d \in Calls : calls[d].baseCfg # None}}
           shared == CHOOSE cfg \in built : \A other \in built : other.ref <= cfg.ref
           context == OptField(call.options, "context")
           withAuth == IF hook = "subclass"
                       THEN subclassApplyAuth(shared, context, nextRef)
                       ELSE applyAuth(shared, context, nextRef)
           finalCfg == finalConfig(withAuth, call.method, call.url, call.body, nextRef + 1)
       IN  calls' = [calls EXCEPT ![c] =
                        [@ EXCEPT !.withAuth = Some(withAuth),
                                  !.sent = Append(@, finalCfg),
                                  !.inFlight = @ + 1,
                                  !.pc = "awaitTransport"]]
    /\ nextRef' = nextRef + 2
    /\ UNCHANGED <<variant, probe>>

\* await applyAuth settles with a configuration; finalCfg is built and handed
\* to the transport
AuthResolves(c, hook) ==
    /\ calls[c].pc = "awaitAuth"
    /\ LET call == calls[c]
           context == OptField(call.options, "context")
           withAuth == IF hook = "subclass"
                       THEN subclassApplyAuth(call.baseCfg[1], context, nextRef)
                       ELSE applyAuth(call.baseCfg[1], context, nextRef)
           finalCfg == finalConfig(withAuth, call.method, call.url, call.body, nextRef + 1)
       IN  calls' = [calls EXCEPT ![c] =
                        [@ EXCEPT !.withAuth = Some(withAuth),
                                  !.sent = Append(@, finalCfg),
                                  !.inFlight = @ + 1,
                                  !.pc = "awaitTransport"]]
    /\ nextRef' = nextRef + 2
    /\ UNCHANGED <<variant, probe>>

\* applyAuth of a subclass throws or rejects
AuthRejects(c, error) ==
    /\ calls[c].pc = "awaitAuth"
    /\ calls' = [calls EXCEPT ![c] = Catch(@, error)]
    /\ UNCHANGED <<variant, nextRef, probe>>

TransportResolves(c, resp) ==
    /\ calls[c].pc = "awaitTransport"
    /\ calls' = [calls EXCEPT ![c] =
                    [@ EXCEPT !.inFlight = @ - 1,
                              !.answers = Append(@, Some(resp.status)),
                              !.response = Some(resp),
                              !.result = Some(selectResponse(calls[c].options, resp)),
                              !.pc = "resolved"]]
    /\ UNCHANGED <<variant, nextRef, probe>>

TransportRejects(c, error) ==
    /\ calls[c].pc = "awaitTransport"
    /\ calls' = [calls EXCEPT ![c] =
                    Catch([@ EXCEPT !.inFlight = @ - 1,
                                    !.answers = Append(@, OptField(error.response, "status"))],
                          error)]
    /\ UNCHANGED <<variant, nextRef, probe>>

Step(c) ==
    \/ BuildConfig(c)
    \/ \E error \in HookErrors : BuildConfigThrows(c, error)
    \/ \E hook \in AuthHooks : AuthResolves(c, hook)
    \/ \E error \in HookErrors : AuthRejects(c, error)
    \/ \E resp \in Responses : TransportResolves(c, resp)
    \/ \E error \in TransportErrors : TransportRejects(c, error)

Next ==
    \/ \E verb \in Verbs, url \in Urls, body \in Bodies, options \in CallOptions :
          InvokeVerb("c1", verb, url, body, options)
    \/ \E method \in Methods, url \in Urls, options \in RequestOptions, n \in 0..MaxRetry :
          InvokeRequest("c1", method, url, options, n)
    \/ Step("c1")

Spec == Init /\ [][Next]_vars

----------------------------------------------------------------------------
(* Two calls in flight on one RestTemplateService instance *)

ConcRetry == 1

ConcVerbs == {"get", "post"}

ConcOptions ==
    {None,
     Some([headers |-> Some("X-Trace" :> Str("trace-123")), params |-> Some([limit |-> 50]),
           timeoutMs |-> Some(0),
           context |-> Some([token |-> Some(Str("access-token"))]),
           responseMode |-> Some(ResponseModeFull)])}

ConcResponses ==
    {[status |-> 200, headers |-> ("content-type" :> Str("application/json")),
      data |-> [id |-> 7]]}

ConcHookErrors == {[kind |-> "object", message |-> None, response |-> None]}

ConcTransportErrors ==
    {e \in TransportErrors : OptField(e.response, "status") \in {None, Some(Unauthorized)}}

\* The steps of call c, each of which may run between any two steps of the
\* other call
ConcStep(c) ==
    \/ BuildConfig(c)
    \/ \E error \in ConcHookErrors : BuildConfigThrows(c, error)
    \/ AuthResolves(c, "default")
    \/ \E error \in ConcHookErrors : AuthRejects(c, error)
    \/ \E resp \in ConcResponses : TransportResolves(c, resp)
    \/ \E error \in ConcTransportErrors : TransportRejects(c, error)

ConcNext ==
    \/ \E c \in Calls, verb \in ConcVerbs, url \in Urls, options \in ConcOptions :
          InvokeVerb(c, verb, url, Some([amount |-> 5]), options)
    \/ \E c \in Calls, url \in Urls :
          InvokeRequest(c, "GET", url, None, ConcRetry)
    \/ \E c \in Calls : ConcStep(c)

ConcSpec == Init /\ [][ConcNext]_vars

----------------------------------------------------------------------------
(* The hooks of RestTemplateService called directly, as its unit tests do *)

ProbeApplyAuth(config, context) ==
    /\ probe = NoProbe
    /\ probe' = [fn |-> "applyAuth", config |-> config, context |-> context,
                 out |-> applyAuth(config, context, nextRef + 1)]
    /\ nextRef' = nextRef + 2
    /\ UNCHANGED <<variant, calls>>

ProbeMapAndThrowError(error) ==
    /\ probe = NoProbe
    /\ probe' = [fn |-> "mapAndThrowError", error |-> error,
                 thrown |-> mapAndThrowError(error)]
    /\ UNCHANGED <<variant, calls, nextRef>>

ProbeBuildBaseConfig(options) ==
    /\ probe = NoProbe
    /\ probe' = [fn |-> "buildBaseConfig", options |-> options,
                 out |-> buildBaseConfig(options, nextRef)]
    /\ nextRef' = nextRef + 1
    /\ UNCHANGED <<variant, calls>>

HooksNext ==
    \/ \E config \in ProbeConfigs(nextRef), context \in Contexts :
          ProbeApplyAuth(config, context)
    \/ \E error \in AnyErrors : ProbeMapAndThrowError(error)
    \/ \E options \in ProbeOptions : ProbeBuildBaseConfig(options)

HooksSpec == Init /\ [][HooksNext]_vars

----------------------------------------------------------------------------
(* helpers/rest-template.util.ts: buildUrl *)

\* Text is a sequence of one-character strings.
Range(seq) == {seq[i] : i \in 1..Len(seq)}

\* String(v) for the three primitive kinds a params value may have
DecimalDigits == <<"0", "1", "2", "3", "4", "5", "6", "7", "8", "9">>

RECURSIVE Decimal(_)
Decimal(n) ==
    IF n < 10 THEN <<DecimalDigits[n + 1]>>
    ELSE Decimal(n \div 10) \o <<DecimalDigits[(n % 10) + 1]>>

String(v) ==
    CASE v.t = "string"  -> v.s
      [] v.t = "number"  -> Decimal(v.n)
      [] v.t = "boolean" -> IF v.b THEN <<"t", "r", "u", "e">>
                            ELSE <<"f", "a", "l", "s", "e">>

\* URLSearchParams.toString(): the application/x-www-form-urlencoded
\* serializer. A space becomes "+", the characters below become "%XX", and
\* letters, digits and * - . _ stay as they are.
PercentCodes ==
    [ch \in {"?", "&", "=", "+", "%", "/", ":", "#"} |->
        CASE ch = "?" -> <<"3", "F">>
          [] ch = "&" -> <<"2", "6">>
          [] ch = "=" -> <<"3", "D">>
          [] ch = "+" -> <<"2", "B">>
          [] ch = "%" -> <<"2", "5">>
          [] ch = "/" -> <<"2", "F">>
          [] ch = ":" -> <<"3", "A">>
          [] ch = "#" -> <<"2", "3">>]

urlencodedByte(ch) ==
    IF ch = " " THEN <<"+">>
    ELSE IF ch \in DOMAIN PercentCodes THEN <<"%">> \o PercentCodes[ch]
    ELSE <<ch>>

RECURSIVE urlencoded(_)
urlencoded(text) ==
    IF text = <<>> THEN <<>>
    ELSE urlencodedByte(Head(text)) \o urlencoded(Tail(text))

\* usp.append(k, String(v)) for every entry, then usp.toString()
RECURSIVE URLSearchParamsToString(_)
URLSearchParamsToString(entries) ==
    IF entries = <<>> THEN <<>>
    ELSE LET pair == urlencoded(entries[1][1]) \o <<"=">>
                         \o urlencoded(String(entries[1][2]))
         IN  IF Len(entries) = 1 THEN pair
             ELSE pair \o <<"&">> \o URLSearchParamsToString(Tail(entries))

\* `${k}=${String(v)}` joined by "&", with no encoding
RECURSIVE RawQuery(_)
RawQuery(entries) ==
    IF entries = <<>> THEN <<>>
    ELSE LET pair == entries[1][1] \o <<"=">> \o String(entries[1][2])
         IN  IF Len(entries) = 1 THEN pair
             ELSE pair \o <<"&">> \o RawQuery(Tail(entries))

buildUrl_Raw(url, params) ==
    IF params = None \/ Len(params[1]) = 0 THEN url
    ELSE url \o <<IF "?" \in Range(url) THEN "&" ELSE "?">>
             \o RawQuery(params[1])

\* params is None (absent) or Some(Object.entries(params))
buildUrl(url, params) ==
    IF params = None \/ Len(params[1]) = 0 THEN url
    ELSE LET hasQuery == "?" \in Range(url)
         IN  url \o <<IF hasQuery THEN "&" ELSE "?">>
                 \o URLSearchParamsToString(params[1])

MaxParams == 2

UrlTexts ==
    {<<>>,
     <<"h", ":", "/", "x">>,
     <<"h", ":", "/", "x", "?">>,
     <<"h", ":", "/", "x", "?", "z", "=", "1">>,
     <<"/", "x", "#", "f">>}

ParamKeys == {<<"a">>, <<"b", " ", "c">>, <<"k", "&">>}

ParamValues ==
    {[t |-> "string", s |-> text] :
        text \in {<<>>, <<"q">>, <<"a", " ", "b">>, <<"x", "&", "y", "=", "1">>}}
    \cup {[t |-> "number", n |-> n] : n \in {0, 42}}
    \cup {[t |-> "boolean", b |-> b] : b \in BOOLEAN}

\* Entry lists of objects with up to MaxParams own keys
ParamEntries ==
    UNION {{es \in [1..n -> ParamKeys \X ParamValues] :
               \A i, j \in 1..n : i # j => es[i][1] # es[j][1]} : n \in 0..MaxParams}

UrlParams == {None} \cup {Some(es) : es \in ParamEntries}

ProbeBuildUrl(url, params) ==
    /\ probe = NoProbe
    /\ probe' = [fn |-> "buildUrl", url |-> url, params |-> params,
                 out |-> buildUrl(url, params)]
    /\ UNCHANGED <<variant, calls, nextRef>>

UtilNext == \E url \in UrlTexts, params \in UrlParams : ProbeBuildUrl(url, params)

UtilSpec == Init /\ [][UtilNext]_vars

----------------------------------------------------------------------------
(* Properties of the request routine *)

Done(call) == call.pc \in {"resolved", "rejected"}

Last(seq) == seq[Len(seq)]

\* Catch clauses that re-entered the routine
Retried(call) == call.budget0 - call.budget

\* Transport calls that were rejected
TransportFailures(call) ==
    Len(call.answers) - (IF call.response = None THEN 0 ELSE 1)

\* Errors captured from buildBaseConfig or applyAuth, before any dispatch
HookFailures(call) == Len(call.captured) - TransportFailures(call)

RequestedMode(call) == OptField(call.options, "responseMode")

\* C1: a verb call whose transport call succeeds resolves, to the whole
\* response envelope when options.responseMode is 'full' and to the
\* envelope's body when responseMode is 'data', unset, or options is absent.
C1_ResponseMode ==
    \A c \in Calls :
        LET call == calls[c] IN
        (call.entry \in Verbs /\ call.response # None) =>
            /\ call.pc = "resolved"
            /\ RequestedMode(call) = Some(ResponseModeFull)
                  => call.result = Some(call.response[1])
            /\ RequestedMode(call) \in {None, Some(ResponseModeData)}
                  => call.result = Some(call.response[1].data)
            /\ call.result # Some(call.response[1])
                  => RequestedMode(call) # Some(ResponseModeFull)

C1_Witness ==
    \E c \in Calls :
        /\ calls[c].entry = "post"
        /\ calls[c].pc = "resolved"
        /\ RequestedMode(calls[c]) = Some(ResponseModeFull)
        /\ calls[c].result = Some(calls[c].response[1])

\* C2: a captured failure that is not re-tried (it is not a 401 with budget
\* left) is handed to mapAndThrowError as it was captured, no transport call
\* follows, and the call rejects without ever resolving to a value.
C2_FailureReachesMapper ==
    \A c \in Calls :
        LET call == calls[c] IN
        Len(call.captured) > Retried(call) =>
            /\ call.mapped = <<Last(call.captured)>>
            /\ call.pc = "rejected"
            /\ call.inFlight = 0
            /\ call.result = None
            /\ call.thrown # None

\* No catch clause captured undefined or null (the case C2 and C9 are about)
NoNullish(call) ==
    \A i \in 1..Len(call.captured) : call.captured[i].kind # "nullish"

AllUnauthorized(call) ==
    \A i \in 1..Len(call.answers) : call.answers[i] = Some(Unauthorized)

C4_Original ==
    \A c \in Calls :
        LET call == calls[c] IN
        /\ (variant = "plain" /\ Done(call) /\ NoNullish(call)) => Len(call.sent) = 1
        /\ variant = "retry" =>
              /\ Len(call.sent) <= call.budget0 + 1
              /\ call.inFlight <= 1

\* C4, amended: without the retry branch an invocation makes at most one
\* transport call: exactly one when buildBaseConfig and applyAuth complete,
\* none when one of them fails; with the retry branch it makes at most
\* budget + 1 transport calls, never two in flight at the same time.
C4_TransportCalls ==
    \A c \in Calls :
        LET call == calls[c] IN
        /\ variant = "plain" =>
              /\ Len(call.sent) <= 1
              /\ call.inFlight <= 1
              /\ Done(call) =>
                    /\ HookFailures(call) = 0 => Len(call.sent) = 1
                    /\ HookFailures(call) > 0 => Len(call.sent) = 0
        /\ variant = "retry" =>
              /\ Len(call.sent) <= call.budget0 + 1
              /\ Len(call.sent) <= call.attempts
              /\ call.inFlight <= 1

C4_Witness ==
    \E c \in Calls :
        /\ variant = "plain"
        /\ calls[c].pc = "rejected"
        /\ HookFailures(calls[c]) = 0
        /\ Len(calls[c].sent) = 1

\* C9: whatever error value the routine hands to mapAndThrowError, the hook
\* does not return: the call rejects, and with an application-level error
\* that carries a status and a message/code/details payload.
C9_MapperRaisesHttpException ==
    \A c \in Calls :
        LET call == calls[c] IN
        call.mapped # <<>> =>
            /\ call.pc = "rejected"
            /\ call.result = None
            /\ call.thrown # None
            /\ call.thrown[1].type = "HttpException"
            /\ {"status", "payload"} \subseteq DOMAIN call.thrown[1]

----------------------------------------------------------------------------
(* Properties of the hooks of RestTemplateService *)

Probed(fn) == probe.fn = fn

\* C5: with no context, or a context without a token field, applyAuth returns
\* the configuration object it was given: the same address, nothing changed.
C5_NoTokenIdentity ==
    (Probed("applyAuth") /\ OptField(probe.context, "token") = None) =>
        /\ probe.out.ref = probe.config.ref
        /\ probe.out = probe.config

C5_Witness ==
    /\ Probed("applyAuth")
    /\ probe.context = Some([token |-> None])
    /\ probe.config.headers # None
    /\ probe.out.ref = probe.config.ref

\* A context whose token is a non-empty string
TokenSet(context) ==
    OptField(context, "token") \notin {None, Some(<<>>)}

HeadersOf(config) == Coalesce(config.headers, EmptyObject)

Bearer(context) == Str("Bearer ") \o context[1].token[1]

\* C6 as claimed: with a token set the returned headers hold every input header
\* with its value unchanged, plus Authorization: Bearer <token>, and the other
\* fields of the configuration are carried over.
C6_Original ==
    (Probed("applyAuth") /\ TokenSet(probe.context)) =>
        /\ \A k \in DOMAIN HeadersOf(probe.config) :
              /\ k \in DOMAIN HeadersOf(probe.out)
              /\ HeadersOf(probe.out)[k] = HeadersOf(probe.config)[k]
        /\ "Authorization" \in DOMAIN HeadersOf(probe.out)
        /\ HeadersOf(probe.out)["Authorization"] = Bearer(probe.context)
        /\ probe.out.timeout = probe.config.timeout
        /\ probe.out.params = probe.config.params

\* C6, amended: with a token set the returned headers hold every input header
\* other than Authorization with its value unchanged, and Authorization:
\* Bearer <token>, which replaces an Authorization header of the input; no
\* other key is added and the other fields of the configuration are carried
\* over.
C6_BearerAdded ==
    (Probed("applyAuth") /\ TokenSet(probe.context)) =>
        /\ DOMAIN HeadersOf(probe.out) =
              DOMAIN HeadersOf(probe.config) \cup {"Authorization"}
        /\ \A k \in DOMAIN HeadersOf(probe.config) \ {"Authorization"} :
              HeadersOf(probe.out)[k] = HeadersOf(probe.config)[k]
        /\ HeadersOf(probe.out)["Authorization"] = Bearer(probe.context)
        /\ probe.out.timeout = probe.config.timeout
        /\ probe.out.params = probe.config.params

C6_Witness ==
    /\ Probed("applyAuth")
    /\ probe.context = Some([token |-> Some(Str("access-token"))])
    /\ "Authorization" \in DOMAIN HeadersOf(probe.config)
    /\ "X-Trace" \in DOMAIN HeadersOf(probe.config)
    /\ HeadersOf(probe.out)["Authorization"] = <<"Bearer ", "access-token">>

ResponseOf(error) == error.response[1]

ExposesStatusAndData(error) ==
    /\ error.response # None
    /\ ResponseOf(error).status # None
    /\ ResponseOf(error).data # None

\* C7 as claimed: for a failure with response.status and response.data the
\* exception has that status and its payload's message, code and details are
\* those of response.data.
C7_Original ==
    (Probed("mapAndThrowError") /\ ExposesStatusAndData(probe.error)) =>
        /\ probe.thrown.type = "HttpException"
        /\ Some(probe.thrown.status) = ResponseOf(probe.error).status
        /\ Some(probe.thrown.payload.message) = ResponseOf(probe.error).data[1].message
        /\ Some(probe.thrown.payload.code) = ResponseOf(probe.error).data[1].code
        /\ probe.thrown.payload.details = ResponseOf(probe.error).data[1].details

\* C7, amended: for a failure with response.status and response.data the
\* exception has that status; its payload's details are those of
\* response.data; its message is that of response.data when there is one,
\* else the failure's own message, else 'Upstream request failed'; its code is
\* that of response.data when there is one, else 'UPSTREAM_ERROR'.
C7_ResponsePayload ==
    (Probed("mapAndThrowError") /\ ExposesStatusAndData(probe.error)) =>
        LET body == ResponseOf(probe.error).data[1]
            payload == probe.thrown.payload
        IN  /\ probe.thrown.type = "HttpException"
            /\ Some(probe.thrown.status) = ResponseOf(probe.error).status
            /\ payload.details = body.details
            /\ body.message # None => Some(payload.message) = body.message
            /\ (body.message = None /\ probe.error.message # None) =>
                  Some(payload.message) = probe.error.message
            /\ (body.message = None /\ probe.error.message = None) =>
                  payload.message = <<"Upstream request failed">>
            /\ body.code # None => Some(payload.code) = body.code
            /\ body.code = None => payload.code = <<"UPSTREAM_ERROR">>

C7_Witness ==
    /\ Probed("mapAndThrowError")
    /\ probe.error.response = Some([status |-> Some(Unauthorized), data |-> FullBody])
    /\ probe.thrown.status = 401
    /\ probe.thrown.payload.message = <<"Unauthorized">>
    /\ probe.thrown.payload.code = <<"INVALID_TOKEN">>

\* C8 as claimed: for a failure without a response the exception has status
\* 502, code 'UPSTREAM_ERROR', no details, and the failure's own message.
C8_Original ==
    (Probed("mapAndThrowError") /\ probe.error.kind = "object"
        /\ probe.error.response = None) =>
        /\ probe.thrown.type = "HttpException"
        /\ probe.thrown.status = 502
        /\ probe.thrown.payload.code = <<"UPSTREAM_ERROR">>
        /\ probe.thrown.payload.details = None
        /\ Some(probe.thrown.payload.message) = probe.error.message

\* C8, amended: for a failure other than undefined or null that has no
\* response the exception has status 502, code 'UPSTREAM_ERROR', no details,
\* and as message the failure's own message when it has one and 'Upstream
\* request failed' when it has none.
C8_FallbackPayload ==
    (Probed("mapAndThrowError") /\ probe.error.kind # "nullish"
        /\ probe.error.response = None) =>
        /\ probe.thrown.type = "HttpException"
        /\ probe.thrown.status = 502
        /\ probe.thrown.payload.code = <<"UPSTREAM_ERROR">>
        /\ probe.thrown.payload.details = None
        /\ probe.error.message # None =>
              Some(probe.thrown.payload.message) = probe.error.message
        /\ probe.error.message = None =>
              probe.thrown.payload.message = <<"Upstream request failed">>

C8_Witness ==
    /\ Probed("mapAndThrowError")
    /\ probe.error = [kind |-> "object", message |-> Some(Str("network timeout")),
                      response |-> None]
    /\ probe.thrown.status = 502
    /\ probe.thrown.payload.message = <<"network timeout">>

PerCallHeaders(options) == Coalesce(OptField(options, "headers"), EmptyObject)

\* C10: the headers of the base configuration are the default headers
\* overlaid by the per-call headers: a per-call key carries the per-call value,
\* a default key the call does not give carries its default value, no other
\* key is present; without per-call headers they are exactly Accept and
\* Content-Type, both application/json.
C10_HeaderMerge ==
    Probed("buildBaseConfig") =>
        LET perCall == PerCallHeaders(probe.options)
            merged == probe.out.headers[1]
        IN  /\ probe.out.headers # None
            /\ \A k \in DOMAIN perCall : k \in DOMAIN merged /\ merged[k] = perCall[k]
            /\ \A k \in {"Accept", "Content-Type"} \ DOMAIN perCall :
                  k \in DOMAIN merged /\ merged[k] = <<"application/json">>
            /\ DOMAIN merged = {"Accept", "Content-Type"} \cup DOMAIN perCall
            /\ DOMAIN perCall = {} =>
                  merged = [k \in {"Accept", "Content-Type"} |-> <<"application/json">>]

C10_Witness ==
    /\ Probed("buildBaseConfig")
    /\ DOMAIN PerCallHeaders(probe.options) = {"Accept", "X-Trace"}
    /\ probe.out.headers[1]["Accept"] = <<"text/plain">>
    /\ probe.out.headers[1]["Content-Type"] = <<"application/json">>

----------------------------------------------------------------------------
(* Further properties of the request routine *)

\* C11: every configuration handed to the transport carries as timeout the
\* caller's options.timeoutMs when one was supplied (0 included) and 10000
\* otherwise; no step of the routine changes it on the way.
C11_TimeoutPassedThrough ==
    \A c \in Calls :
        LET call == calls[c]
            supplied == OptField(call.options, "timeoutMs")
        IN  /\ \A i \in 1..Len(call.sent) :
                  /\ supplied # None => call.sent[i].timeout = supplied
                  /\ supplied = None => call.sent[i].timeout = <<10000>>
            /\ call.baseCfg # None =>
                  /\ supplied # None => call.baseCfg[1].timeout = supplied
                  /\ supplied = None => call.baseCfg[1].timeout = <<10000>>

C11_Witness ==
    \E c \in Calls :
        /\ OptField(calls[c].options, "timeoutMs") = Some(0)
        /\ calls[c].pc = "resolved"
        /\ calls[c].sent[1].timeout = <<0>>

----------------------------------------------------------------------------
(* Properties of buildUrl *)

\* The pieces of text between occurrences of sep
RECURSIVE Split(_, _)
Split(text, sep) ==
    IF sep \notin Range(text) THEN <<text>>
    ELSE LET i == CHOOSE k \in 1..Len(text) :
                      text[k] = sep /\ \A j \in 1..(k - 1) : text[j] # sep
         IN  <<SubSeq(text, 1, i - 1)>> \o Split(SubSeq(text, i + 1, Len(text)), sep)

\* What a form-urlencoded reader recovers from a key or a value
RECURSIVE Decoded(_)
Decoded(text) ==
    IF text = <<>> THEN <<>>
    ELSE IF text[1] = "+" THEN <<" ">> \o Decoded(Tail(text))
    ELSE IF text[1] = "%" /\ Len(text) >= 3
              /\ \E ch \in DOMAIN PercentCodes : PercentCodes[ch] = <<text[2], text[3]>>
         THEN <<CHOOSE ch \in DOMAIN PercentCodes : PercentCodes[ch] = <<text[2], text[3]>>>>
                  \o Decoded(SubSeq(text, 4, Len(text)))
    ELSE <<text[1]>> \o Decoded(Tail(text))

NoEntries(params) == params = None \/ Len(params[1]) = 0

Separator(url) == IF "?" \in Range(url) THEN "&" ELSE "?"

\* C12 as stated: the appended pairs are key=String(value) as they are.
C12_Original ==
    Probed("buildUrl") =>
        IF NoEntries(probe.params) THEN probe.out = probe.url
        ELSE probe.out = probe.url \o <<Separator(probe.url)>> \o RawQuery(probe.params[1])

\* C12: buildUrl returns url verbatim when params is absent or has no keys;
\* otherwise the result is url unchanged, then "&" if url contains "?" and "?"
\* if not, then one pair per entry in entry order, joined by "&", each pair
\* being the form-urlencoded key, "=", and the form-urlencoded String(value):
\* no raw "&" or "=" of a key or value survives, and decoding each side gives
\* back the key and the string form of the value.
C12_EncodedQuery ==
    Probed("buildUrl") =>
        LET url == probe.url
            out == probe.out
        IN  IF NoEntries(probe.params) THEN out = url
            ELSE /\ Len(out) > Len(url)
                 /\ SubSeq(out, 1, Len(url)) = url
                 /\ out[Len(url) + 1] = Separator(url)
                 /\ LET entries == probe.params[1]
                        pairs == Split(SubSeq(out, Len(url) + 2, Len(out)), "&")
                    IN  /\ Len(pairs) = Len(entries)
                        /\ \A i \in 1..Len(entries) :
                              LET kv == Split(pairs[i], "=")
                              IN  /\ Len(kv) = 2
                                  /\ " " \notin Range(pairs[i])
                                  /\ Decoded(kv[1]) = entries[i][1]
                                  /\ Decoded(kv[2]) = String(entries[i][2])

C12_Witness ==
    /\ Probed("buildUrl")
    /\ probe.url = <<"h", ":", "/", "x", "?", "z", "=", "1">>
    /\ probe.params = Some(<<<<<<"k", "&">>, [t |-> "string", s |-> <<"a", " ", "b">>]>>,
                             <<<<"a">>, [t |-> "number", n |-> 42]>>>>)
    /\ probe.out = <<"h", ":", "/", "x", "?", "z", "=", "1", "&",
                     "k", "%", "2", "6", "=", "a", "+", "b", "&",
                     "a", "=", "4", "2">>

----------------------------------------------------------------------------
(* Order of the steps of one attempt *)

BaseFields == {"ref", "headers", "params", "timeout"}

\* C13: in every attempt the configuration built for applyAuth has headers,
\* params and timeout only; while applyAuth is pending nothing of the attempt
\* is with the transport; the dispatched configuration is allocated after the
\* one applyAuth returned, which is no older than the base configuration; and
\* its method, url and data are the caller's arguments whatever applyAuth
\* returned.
C13_StepOrder ==
    \A c \in Calls :
        LET call == calls[c]
        IN  /\ call.baseCfg # None => DOMAIN call.baseCfg[1] = BaseFields
            /\ call.pc \in {"idle", "start"} => call.inFlight = 0
            /\ call.pc = "awaitAuth" =>
                  /\ call.baseCfg # None /\ call.withAuth = None
                  /\ call.inFlight = 0
                  /\ \A i \in 1..Len(call.sent) : call.sent[i].ref < call.baseCfg[1].ref
            /\ call.pc = "awaitTransport" =>
                  /\ call.baseCfg # None /\ call.withAuth # None
                  /\ call.inFlight = 1
                  /\ call.baseCfg[1].ref <= call.withAuth[1].ref
                  /\ call.withAuth[1].ref < Last(call.sent).ref
            /\ \A i \in 1..Len(call.sent) :
                  /\ call.sent[i].method = call.method
                  /\ call.sent[i].url = call.url
                  /\ call.sent[i].data = call.body

C13_Witness ==
    \E c \in Calls :
        /\ calls[c].pc = "awaitTransport"
        /\ Len(calls[c].sent) = 2
        /\ "method" \in DOMAIN calls[c].withAuth[1]
        /\ calls[c].withAuth[1].method = "TRACE"
        /\ calls[c].withAuth[1].url = "/elsewhere"
        /\ Last(calls[c].sent).method = "GET"
        /\ Last(calls[c].sent).url = "/payments"
        /\ Last(calls[c].sent).data = None

----------------------------------------------------------------------------
(* Calls in flight together *)

\* The addresses of the configuration objects a call has built
ConfigRefs(call) ==
    (IF call.baseCfg = None THEN {} ELSE {call.baseCfg[1].ref})
    \cup (IF call.withAuth = None THEN {} ELSE {call.withAuth[1].ref})
    \cup {call.sent[i].ref : i \in 1..Len(call.sent)}

\* What the call's own arguments make of the dispatched configuration
OwnConfig(call, ref) ==
    finalConfig(applyAuth(buildBaseConfig(call.options, ref),
                          OptField(call.options, "context"), ref),
                call.method, call.url, call.body, ref)

\* C14: with two calls in flight on one instance in any interleaving, the
\* configuration objects of the two calls are different objects, every
\* configuration a call dispatches is the one its own arguments determine, the
\* budget it has left is its own budget less its own retries, and it settles
\* with the selection of its own response or the mapping of its own last error.
C14_CallsIndependent ==
    /\ \A c, d \in Calls : c # d => ConfigRefs(calls[c]) \cap ConfigRefs(calls[d]) = {}
    /\ \A c \in Calls :
          LET call == calls[c]
          IN  /\ \A i \in 1..Len(call.sent) :
                    call.sent[i] = OwnConfig(call, call.sent[i].ref)
              /\ call.budget = call.budget0
                                 - (Len(call.captured) - (IF call.pc = "rejected" THEN 1 ELSE 0))
              /\ call.pc = "resolved" =>
                    /\ call.response # None
                    /\ call.result = Some(selectResponse(call.options, call.response[1]))
              /\ call.pc = "rejected" =>
                    call.thrown = Some(mapAndThrowError(Last(call.captured)))

C14_Witness ==
    /\ calls["c1"].pc = "resolved" /\ calls["c2"].pc = "rejected"
    /\ calls["c1"].options # calls["c2"].options
    /\ calls["c1"].method # calls["c2"].method
    /\ calls["c1"].baseCfg # None /\ calls["c2"].baseCfg # None
    /\ Len(calls["c1"].sent) = 1 /\ Len(calls["c2"].sent) = 2
    /\ calls["c1"].baseCfg[1].ref < calls["c2"].baseCfg[1].ref
    /\ calls["c2"].baseCfg[1].ref < calls["c1"].sent[1].ref
    /\ calls["c1"].sent[1].ref < calls["c2"].sent[2].ref

----------------------------------------------------------------------------
(* What the routine leaves alone *)

ByDefaultHook(call) == call.withAuth # None /\ "method" \notin DOMAIN call.withAuth[1]

\* C15: at every point of a call, and after it has resolved or rejected with
\* or without retries, the caller's options object has the content it had when
\* the call was made; the configuration handed to applyAuth keeps the content
\* buildBaseConfig gave it; a configuration returned at the address of the
\* input is the input unchanged; and with a token the default applyAuth
\* returns an object at a new address that carries the Authorization header.
C15_InputsUnchanged ==
    \A c \in Calls :
        LET call == calls[c]
        IN  /\ call.options = call.options0
            /\ call.baseCfg # None =>
                  call.baseCfg[1] = buildBaseConfig(call.options0, call.baseCfg[1].ref)
            /\ (call.withAuth # None /\ call.withAuth[1].ref = call.baseCfg[1].ref) =>
                  call.withAuth[1] = call.baseCfg[1]
            /\ (ByDefaultHook(call) /\ ~TokenMissing(OptField(call.options0, "context"))) =>
                  /\ call.withAuth[1].ref # call.baseCfg[1].ref
                  /\ "Authorization" \in DOMAIN call.withAuth[1].headers[1]
                  /\ "Authorization" \notin DOMAIN call.baseCfg[1].headers[1]

C15_Witness ==
    \E c \in Calls :
        /\ calls[c].pc = "rejected"
        /\ Retried(calls[c]) = 1
        /\ ByDefaultHook(calls[c])
        /\ ~TokenMissing(OptField(calls[c].options0, "context"))
        /\ calls[c].options = calls[c].options0
        /\ calls[c].withAuth[1].ref = calls[c].baseCfg[1].ref + 1

----------------------------------------------------------------------------
(* The verb methods and the retry branch *)

\* C16: in the routine with the retry branch, a call made through get, post,
\* put, patch or delete runs with a budget of 0: it enters the routine once,
\* calls the transport at most once, and a 401 answer is handed to the mapper
\* as the one captured error; a call that retried was made through the
\* protected routine with a positive budget.
C16_VerbsNeverRetry ==
    \A c \in Calls :
        LET call == calls[c]
        IN  variant = "retry" =>
              /\ call.entry \in Verbs =>
                    /\ call.budget0 = 0 /\ call.budget = 0
                    /\ call.attempts <= 1
                    /\ Len(call.sent) <= 1
                    /\ (call.answers # <<>> /\ Last(call.answers) = Some(Unauthorized)) =>
                          /\ call.pc = "rejected"
                          /\ Len(call.captured) = 1
                          /\ call.mapped = call.captured
                          /\ call.thrown = Some(mapAndThrowError(call.captured[1]))
              /\ Retried(call) > 0 => (call.entry = "request" /\ call.budget0 > 0)

C16_Witness ==
    \E c \in Calls :
        /\ variant = "retry"
        /\ calls[c].entry = "get"
        /\ calls[c].answers = <<Some(Unauthorized)>>
        /\ calls[c].pc = "rejected"
        /\ Len(calls[c].sent) = 1
        /\ calls[c].thrown[1].status = Unauthorized

----------------------------------------------------------------------------
(* The end of a retry chain *)

\* C17: a call of the routine with the retry branch that retried at least
\* once and then rejected has handed exactly one error to mapAndThrowError,
\* the one captured last, rejects with what the mapper raised for it, and has
\* spent budget on the earlier captures only.
C17_MappedOnceAtTheEnd ==
    \A c \in Calls :
        LET call == calls[c]
        IN  (variant = "retry" /\ call.pc = "rejected" /\ Retried(call) > 0) =>
              /\ Len(call.mapped) = 1
              /\ call.mapped[1] = Last(call.captured)
              /\ call.thrown = Some(mapAndThrowError(Last(call.captured)))
              /\ Retried(call) = Len(call.captured) - 1

====
